---- MODULE Spec2Model ----
(***************************************************************************)
(* Model of run_in_ns (src/src/main.rs): a tool that forks a child, has    *)
(* the child create a named network namespace, enter it, isolate its       *)
(* mount namespace, remount /sys and bring "lo" up, while the parent waits *)
(* for the child and turns its wait status into the exit status.           *)
(*                                                                         *)
(* Kernel and library calls (fork, waitpid, NetworkNamespace::add, open,   *)
(* setns, unshare, mount, statvfs, the rtnetlink requests) are the         *)
(* environment: each returns one of the results its signature allows.      *)
(* A behaviour may stutter at any step, which covers a call that never     *)
(* returns.  Successive invocations of the tool run one after another and  *)
(* share the namespace registry /run/netns.                                *)
(***************************************************************************)
EXTENDS Integers, Sequences, FiniteSets, TLC

\* ---- bounds ----
MaxRuns == 2
MaxArgs == 3

\* ---- universe ----
Names == {"a", "b"}
Procs == {"parent", "child"}
MntNs == {"host", "private"}
NetNs == {"host"} \cup Names
Results == {"ok", "err"}
SysStates == {"absent", "rw", "ro"}

NoStatus == [kind |-> "none", code |-> 0]
Exited(c) == [kind |-> "Exited", code |-> c]
Signaled(s) == [kind |-> "Signaled", code |-> s]
StillAlive == [kind |-> "StillAlive", code |-> 0]
WaitErr == [kind |-> "Err", code |-> 0]
\* a panic on the main thread ends the process with exit code 101
PanicStatus == Exited(101)
\* std::process::abort() raises SIGABRT
AbortStatus == Signaled(6)
KillStatus == Signaled(9)

NoSys == [present |-> FALSE, src |-> "", ro |-> FALSE]
HostSys(s) == IF s = "absent" THEN NoSys
              ELSE [present |-> TRUE, src |-> "sysfs", ro |-> (s = "ro")]

VARIABLES
    run,          \* number of invocations started so far
    argc,         \* args.len() of the current invocation (program name included)
    nsName,       \* args[1] of the current invocation
    registry,     \* /run/netns: name -> run that created the entry, 0 if none
    regAtStart,   \* registry when the current invocation started
    loUp,         \* administrative state of "lo" in each network namespace
    pc,           \* position of each process
    status,       \* terminal status of each process
    netns,        \* network namespace each process is a member of
    mntns,        \* mount namespace each process is a member of
    rootProp,     \* propagation of / in each mount namespace
    sysfs,        \* what is mounted on /sys in each mount namespace
    sysAtStart,   \* the host's /sys when the current invocation started
    fd,           \* the namespace handle of split_namespace
    mount_flags,  \* the local mount_flags of split_namespace
    conn,         \* namespace the rtnetlink connection was opened in
    forkRes,      \* result of fork()
    waitRes,      \* what waitpid returned
    verdict,      \* what run_in_namespace returned to main
    trace,        \* calls issued since the invocation started
    usage_shown   \* whether usage() printed its message in this invocation

vars == <<run, argc, nsName, registry, regAtStart, loUp, pc, status, netns,
          mntns, rootProp, sysfs, sysAtStart, fd, mount_flags, conn, forkRes,
          waitRes, verdict, trace, usage_shown>>

Entry(p, op, res) ==
    [proc |-> p, op |-> op, res |-> res, ns |-> netns[p], mnt |-> mntns[p],
     flags |-> {}]

MountEntry(p, op, res, flags) ==
    [proc |-> p, op |-> op, res |-> res, ns |-> netns[p], mnt |-> mntns[p],
     flags |-> flags]

Other(p) == IF p = "parent" THEN "child" ELSE "parent"

\* the position of a process that has ended
Done(p) == IF p = "parent" THEN "exited" ELSE "terminated"

Init ==
    /\ run = 0
    /\ argc = 1
    /\ nsName = "a"
    /\ registry = [n \in Names |-> 0]
    /\ regAtStart = [n \in Names |-> 0]
    /\ loUp = [n \in NetNs |-> n = "host"]
    /\ pc = [p \in Procs |-> IF p = "parent" THEN "idle" ELSE "none"]
    /\ status = [p \in Procs |-> NoStatus]
    /\ netns = [p \in Procs |-> "host"]
    /\ mntns = [p \in Procs |-> "host"]
    /\ rootProp = [m \in MntNs |-> "shared"]
    /\ sysfs = [m \in MntNs |-> IF m = "host" THEN HostSys("rw") ELSE NoSys]
    /\ sysAtStart = HostSys("rw")
    /\ fd = "none"
    /\ mount_flags = {}
    /\ conn = "none"
    /\ forkRes = "none"
    /\ waitRes = NoStatus
    /\ verdict = "none"
    /\ trace = <<>>
    /\ usage_shown = FALSE

\* ---- the invoking shell: start the tool with some arguments ----
Invoke ==
    /\ run < MaxRuns
    /\ pc["parent"] \in {"idle", "exited"}
    /\ pc["child"] \in {"none", "terminated"}
    /\ \E n \in 1..MaxArgs, name \in Names, s \in SysStates :
         /\ argc' = n
         /\ nsName' = name
         /\ sysfs' = [m \in MntNs |-> IF m = "host" THEN HostSys(s) ELSE NoSys]
         /\ sysAtStart' = HostSys(s)
    /\ run' = run + 1
    /\ regAtStart' = registry
    /\ pc' = [p \in Procs |-> IF p = "parent" THEN "main" ELSE "none"]
    /\ status' = [p \in Procs |-> NoStatus]
    /\ netns' = [p \in Procs |-> "host"]
    /\ mntns' = [p \in Procs |-> "host"]
    /\ rootProp' = [m \in MntNs |-> "shared"]
    /\ fd' = "none"
    /\ mount_flags' = {}
    /\ conn' = "none"
    /\ forkRes' = "none"
    /\ waitRes' = NoStatus
    /\ verdict' = "none"
    /\ trace' = <<>>
    /\ usage_shown' = FALSE
    /\ UNCHANGED <<registry, loUp>>

\* ---- main ----
ArgsOkAtLeast(n) == n >= 2

\* if args.len() != 2 { usage(); return Ok(()) }
ArgsOk(n) == n = 2

MainExitIgnoringResult(v) == Exited(0)

\* run_in_namespace(ns_name).await.unwrap(); Ok(())
MainExit(v) == IF v = "Ok" THEN Exited(0) ELSE PanicStatus

main ==
    /\ pc["parent"] = "main"
    /\ IF ArgsOk(argc)
         THEN /\ pc' = [pc EXCEPT !["parent"] = "fork"]
              /\ UNCHANGED <<status, usage_shown>>
         ELSE \* usage(); return Ok(())
              /\ usage_shown' = TRUE
              /\ pc' = [pc EXCEPT !["parent"] = "exited"]
              /\ status' = [status EXCEPT !["parent"] = Exited(0)]
    /\ UNCHANGED <<run, argc, nsName, registry, regAtStart, loUp, netns, mntns,
                   rootProp, sysfs, sysAtStart, fd, mount_flags, conn, forkRes,
                   waitRes, verdict, trace>>

ForkArmSwapped(p) == IF p = "parent" THEN "ns_add" ELSE "waitpid"

\* the arm of the match on fork()'s result that each process takes
ForkArm(p) == IF p = "parent" THEN "waitpid" ELSE "ns_add"

\* prep_for_fork()?; match unsafe { fork() }
run_in_namespace ==
    /\ pc["parent"] = "fork"
    /\ \E r \in Results :
         /\ forkRes' = r
         /\ IF r = "ok"
              THEN /\ pc' = [p \in Procs |-> ForkArm(p)]
                   /\ verdict' = verdict
              ELSE /\ pc' = [pc EXCEPT !["parent"] = "returned"]
                   /\ verdict' = "Err"
    /\ UNCHANGED <<usage_shown, run, argc, nsName, registry, regAtStart, loUp, status, netns,
                   mntns, rootProp, sysfs, sysAtStart, fd, mount_flags, conn,
                   waitRes, trace>>

run_parentAnyExit(ws) == IF ws.kind = "Exited" THEN "Ok" ELSE "Err"

\* the match of run_parent on waitpid's result
run_parent(ws) ==
    IF ws.kind = "Exited"
      THEN IF ws.code = 0 THEN "Ok" ELSE "Err"
      ELSE "Err"

\* what waitpid(child, None) can return at this moment
WaitResults(p) ==
    (IF pc[Other(p)] = Done(Other(p)) THEN {status[Other(p)]} ELSE {})
      \cup {StillAlive, WaitErr}

Waitpid(p) ==
    /\ pc[p] = "waitpid"
    /\ \E ws \in WaitResults(p) :
         /\ waitRes' = ws
         /\ verdict' = run_parent(ws)
    /\ pc' = [pc EXCEPT ![p] = "returned"]
    /\ UNCHANGED <<usage_shown, run, argc, nsName, registry, regAtStart, loUp, status, netns,
                   mntns, rootProp, sysfs, sysAtStart, fd, mount_flags, conn,
                   forkRes, trace>>

\* main after run_in_namespace returned
MainReturn(p) ==
    /\ pc[p] = "returned"
    /\ pc' = [pc EXCEPT ![p] = Done(p)]
    /\ status' = [status EXCEPT ![p] = MainExit(verdict)]
    /\ UNCHANGED <<usage_shown, run, argc, nsName, registry, regAtStart, loUp, netns, mntns,
                   rootProp, sysfs, sysAtStart, fd, mount_flags, conn, forkRes,
                   waitRes, verdict, trace>>

\* ---- split_namespace ----
AfterAddIgnoringError(res) == "open"

\* NetworkNamespace::add(..).await.map_err(..).unwrap()
AfterAdd(res) == IF res = "ok" THEN "open" ELSE "panic"

\* the results NetworkNamespace::add can give: the entry is created
\* exclusively, so an existing name always fails
AddResults(name) == IF registry[name] # 0 THEN {"err"} ELSE Results

NsAdd(p) ==
    /\ pc[p] = "ns_add"
    /\ \E res \in AddResults(nsName) :
         /\ IF res = "ok"
              THEN /\ registry' = [registry EXCEPT ![nsName] = run]
                   /\ loUp' = [loUp EXCEPT ![nsName] = FALSE]
              ELSE UNCHANGED <<registry, loUp>>
         /\ trace' = Append(trace, Entry(p, "add", res))
         /\ pc' = [pc EXCEPT ![p] = AfterAdd(res)]
    /\ UNCHANGED <<usage_shown, run, argc, nsName, regAtStart, status, netns, mntns,
                   rootProp, sysfs, sysAtStart, fd, mount_flags, conn, forkRes,
                   waitRes, verdict>>

AfterOpenSkippingSetns(res) == IF res = "ok" THEN "unshare" ELSE "abort"

AfterOpenRetrying(res) == IF res = "ok" THEN "setns" ELSE "open"

\* match open(..) { Ok(raw_fd) => File::from_raw_fd(raw_fd), Err(e) => return Err(()) }
AfterOpen(res) == IF res = "ok" THEN "setns" ELSE "abort"

\* open(/run/netns/<name>) cannot succeed when the entry does not exist
OpenResults(name) == IF registry[name] = 0 THEN {"err"} ELSE Results

OpenNs(p) ==
    /\ pc[p] = "open"
    /\ \E res \in OpenResults(nsName) :
         /\ fd' = IF res = "ok" THEN "open" ELSE fd
         /\ trace' = Append(trace, Entry(p, "open", res))
         /\ pc' = [pc EXCEPT ![p] = AfterOpen(res)]
    /\ UNCHANGED <<usage_shown, run, argc, nsName, registry, regAtStart, loUp, status, netns,
                   mntns, rootProp, sysfs, sysAtStart, mount_flags, conn,
                   forkRes, waitRes, verdict>>

AfterSetnsIgnoringError(res) == "unshare"

\* if let Err(e) = setns(fd, CLONE_NEWNET) { return Err(()) }
AfterSetns(res) == IF res = "ok" THEN "unshare" ELSE "abort"

FdAfterSetnsLeakOnError(res) == IF res = "ok" THEN "closed" ELSE "open"

\* setns takes the File by value: it is dropped, hence closed, on return
FdAfterSetns(res) == "closed"

Setns(p) ==
    /\ pc[p] = "setns"
    /\ \E res \in Results :
         /\ netns' = IF res = "ok" THEN [netns EXCEPT ![p] = nsName] ELSE netns
         /\ trace' = Append(trace, Entry(p, "setns", res))
         /\ pc' = [pc EXCEPT ![p] = AfterSetns(res)]
         /\ fd' = FdAfterSetns(res)
    /\ UNCHANGED <<usage_shown, run, argc, nsName, registry, regAtStart, loUp, status, mntns,
                   rootProp, sysfs, sysAtStart, mount_flags, conn, forkRes,
                   waitRes, verdict>>

AfterUnshareIgnoringError(res) == "mount_root"

\* if let Err(e) = unshare(CLONE_NEWNS) { return Err(()) }
AfterUnshare(res) == IF res = "ok" THEN "mount_root" ELSE "abort"

\* the mount namespace a process gets from a successful unshare(CLONE_NEWNS)
NewMntNs(p) == "private"

Unshare(p) ==
    /\ pc[p] = "unshare"
    /\ \E res \in Results :
         /\ IF res = "ok"
              THEN /\ mntns' = [mntns EXCEPT ![p] = NewMntNs(p)]
                   /\ rootProp' = [rootProp EXCEPT ![NewMntNs(p)] = rootProp[mntns[p]]]
                   /\ sysfs' = [sysfs EXCEPT ![NewMntNs(p)] = sysfs[mntns[p]]]
              ELSE UNCHANGED <<mntns, rootProp, sysfs>>
         /\ trace' = Append(trace, Entry(p, "unshare", res))
         /\ pc' = [pc EXCEPT ![p] = AfterUnshare(res)]
    /\ UNCHANGED <<usage_shown, run, argc, nsName, registry, regAtStart, loUp, status, netns,
                   sysAtStart, fd, mount_flags, conn, forkRes, waitRes, verdict>>

AfterMountRootFatal(res) == IF res = "ok" THEN "statvfs" ELSE "abort"

\* if let Err(e) = mount(None, "/", None, mount_flags, None) { log; () }
AfterMountRoot(res) == "statvfs"

RootFlags == {"MS_REC", "MS_PRIVATE"}

MountRoot(p) ==
    /\ pc[p] = "mount_root"
    /\ mount_flags' = RootFlags
    /\ \E res \in Results :
         /\ rootProp' = IF res = "ok"
                          THEN [rootProp EXCEPT ![mntns[p]] = "private"]
                          ELSE rootProp
         /\ trace' = Append(trace, MountEntry(p, "mount_root", res, RootFlags))
         /\ pc' = [pc EXCEPT ![p] = AfterMountRoot(res)]
    /\ UNCHANGED <<usage_shown, run, argc, nsName, registry, regAtStart, loUp, status, netns,
                   mntns, sysfs, sysAtStart, fd, conn, forkRes, waitRes,
                   verdict>>

\* let stat_sys = statvfs(&sys_path).map_err(..).unwrap()
AfterStatvfs(res) == IF res = "ok" THEN "mount_sys" ELSE "panic"

\* statvfs("/sys") fails when nothing is there
StatvfsResult(m) == IF sysfs[m].present THEN "ok" ELSE "err"

SysFlagsNotCleared(m) ==
    RootFlags \cup (IF sysfs[m].present /\ sysfs[m].ro THEN {"MS_RDONLY"} ELSE {})

\* mount_flags = MsFlags::empty(); then MS_RDONLY if the old /sys has ST_RDONLY
SysFlags(m) == IF sysfs[m].present /\ sysfs[m].ro THEN {"MS_RDONLY"} ELSE {}

StatvfsSys(p) ==
    /\ pc[p] = "statvfs"
    /\ mount_flags' = SysFlags(mntns[p])
    /\ trace' = Append(trace, Entry(p, "statvfs", StatvfsResult(mntns[p])))
    /\ pc' = [pc EXCEPT ![p] = AfterStatvfs(StatvfsResult(mntns[p]))]
    /\ UNCHANGED <<usage_shown, run, argc, nsName, registry, regAtStart, loUp, status, netns,
                   mntns, rootProp, sysfs, sysAtStart, fd, conn, forkRes,
                   waitRes, verdict>>

\* if let Err(e) = mount(Some(ns_name), "/sys", Some("sysfs"), mount_flags, None) { log; () }
AfterMountSys(res) == "new_connection"

MountSys(p) ==
    /\ pc[p] = "mount_sys"
    /\ \E res \in Results :
         /\ sysfs' = IF res = "ok"
                       THEN [sysfs EXCEPT ![mntns[p]] =
                               [present |-> TRUE, src |-> nsName,
                                ro |-> ("MS_RDONLY" \in mount_flags)]]
                       ELSE sysfs
         /\ trace' = Append(trace, MountEntry(p, "mount_sys", res, mount_flags))
         /\ pc' = [pc EXCEPT ![p] = AfterMountSys(res)]
    /\ UNCHANGED <<usage_shown, run, argc, nsName, registry, regAtStart, loUp, status, netns,
                   mntns, rootProp, sysAtStart, fd, mount_flags, conn, forkRes,
                   waitRes, verdict>>

\* ---- set_lo_up ----
\* let (connection, handle, _) = new_connection().unwrap(); the connection
\* is bound but neither spawned nor polled, so whether a request made on the
\* handle is ever answered is left to the environment
AfterNewConnection(res) == IF res = "ok" THEN "link_get" ELSE "panic"

NewConnection(p) ==
    /\ pc[p] = "new_connection"
    /\ \E res \in Results :
         /\ conn' = IF res = "ok" THEN netns[p] ELSE conn
         /\ trace' = Append(trace, Entry(p, "new_connection", res))
         /\ pc' = [pc EXCEPT ![p] = AfterNewConnection(res)]
    /\ UNCHANGED <<usage_shown, run, argc, nsName, registry, regAtStart, loUp, status, netns,
                   mntns, rootProp, sysfs, sysAtStart, fd, mount_flags, forkRes,
                   waitRes, verdict>>

LinkGetResults == {"ok", "none", "err"}

AfterLinkGetIgnoringMissing(res) == IF res = "err" THEN "panic" ELSE "link_set"

AfterLinkGetRetrying(res) ==
    IF res = "ok" THEN "link_set" ELSE IF res = "none" THEN "link_get" ELSE "panic"

\* handle.link().get().match_name("lo").execute().try_next().await?
\*     .ok_or_else(..).unwrap(); an Err returned by `?` is unwrapped by
\* split_namespace
AfterLinkGet(res) == IF res = "ok" THEN "link_set" ELSE "panic"

LinkGet(p) ==
    /\ pc[p] = "link_get"
    /\ \E res \in LinkGetResults :
         /\ trace' = Append(trace, Entry(p, "link_get", res))
         /\ pc' = [pc EXCEPT ![p] = AfterLinkGet(res)]
    /\ UNCHANGED <<usage_shown, run, argc, nsName, registry, regAtStart, loUp, status, netns,
                   mntns, rootProp, sysfs, sysAtStart, fd, mount_flags, conn,
                   forkRes, waitRes, verdict>>

AfterLinkSetIgnoringError(res) == "exit0"

\* handle.link().set(veth_idx).up().execute().await.unwrap(); Ok(())
AfterLinkSet(res) == IF res = "ok" THEN "exit0" ELSE "panic"

LinkSet(p) ==
    /\ pc[p] = "link_set"
    /\ \E res \in Results :
         /\ loUp' = IF res = "ok" THEN [loUp EXCEPT ![conn] = TRUE] ELSE loUp
         /\ trace' = Append(trace, Entry(p, "link_set", res))
         /\ pc' = [pc EXCEPT ![p] = AfterLinkSet(res)]
    /\ UNCHANGED <<usage_shown, run, argc, nsName, registry, regAtStart, status, netns,
                   mntns, rootProp, sysfs, sysAtStart, fd, mount_flags, conn,
                   forkRes, waitRes, verdict>>

\* ---- the ways the process running split_namespace ends ----
\* match res { Err(_) => std::process::abort(), Ok(()) => exit(0) }
RunChildStatus(label) == IF label = "exit0" THEN Exited(0) ELSE AbortStatus

run_child(p) ==
    /\ pc[p] \in {"exit0", "abort"}
    /\ status' = [status EXCEPT ![p] = RunChildStatus(pc[p])]
    /\ pc' = [pc EXCEPT ![p] = Done(p)]
    /\ UNCHANGED <<usage_shown, run, argc, nsName, registry, regAtStart, loUp, netns, mntns,
                   rootProp, sysfs, sysAtStart, fd, mount_flags, conn, forkRes,
                   waitRes, verdict, trace>>

\* a failed unwrap() panics; the panic unwinds out of main
Panic(p) ==
    /\ pc[p] = "panic"
    /\ status' = [status EXCEPT ![p] = PanicStatus]
    /\ pc' = [pc EXCEPT ![p] = Done(p)]
    /\ UNCHANGED <<usage_shown, run, argc, nsName, registry, regAtStart, loUp, netns, mntns,
                   rootProp, sysfs, sysAtStart, fd, mount_flags, conn, forkRes,
                   waitRes, verdict, trace>>

Running(p) == pc[p] \notin {"none", "idle", "main", "fork", "exited", "terminated"}

\* the environment kills the forked child
Kill ==
    /\ forkRes = "ok"
    /\ Running("child")
    /\ status' = [status EXCEPT !["child"] = KillStatus]
    /\ pc' = [pc EXCEPT !["child"] = "terminated"]
    /\ UNCHANGED <<usage_shown, run, argc, nsName, registry, regAtStart, loUp, netns, mntns,
                   rootProp, sysfs, sysAtStart, fd, mount_flags, conn, forkRes,
                   waitRes, verdict, trace>>

Next ==
    \/ Invoke
    \/ main
    \/ run_in_namespace
    \/ \E p \in Procs : Waitpid(p)
    \/ \E p \in Procs : MainReturn(p)
    \/ \E p \in Procs : NsAdd(p)
    \/ \E p \in Procs : OpenNs(p)
    \/ \E p \in Procs : Setns(p)
    \/ \E p \in Procs : Unshare(p)
    \/ \E p \in Procs : MountRoot(p)
    \/ \E p \in Procs : StatvfsSys(p)
    \/ \E p \in Procs : MountSys(p)
    \/ \E p \in Procs : NewConnection(p)
    \/ \E p \in Procs : LinkGet(p)
    \/ \E p \in Procs : LinkSet(p)
    \/ \E p \in Procs : run_child(p)
    \/ \E p \in Procs : Panic(p)
    \/ Kill

Spec == Init /\ [][Next]_vars

\* ---- scheduling ----
\* waitpid(child, None) blocks; it returns once the child has ended
WaitpidReaps(p) ==
    /\ pc[Other(p)] = Done(Other(p))
    /\ Waitpid(p)
    /\ waitRes' = status[Other(p)]

\* the steps of a process that only need the process itself to run: plain
\* computation and kernel calls, each of which returns
OwnStep(p) ==
    \/ MainReturn(p)
    \/ NsAdd(p)
    \/ OpenNs(p)
    \/ Setns(p)
    \/ Unshare(p)
    \/ MountRoot(p)
    \/ StatvfsSys(p)
    \/ MountSys(p)
    \/ NewConnection(p)
    \/ run_child(p)
    \/ Panic(p)

\* Every process that can take a step of its own eventually takes it, and a
\* blocked waitpid returns once the child has ended.  The two rtnetlink
\* requests are answered through the connection returned by new_connection,
\* which set_lo_up binds but never spawns or polls: nothing in the program
\* makes their answers arrive, so LinkGet and LinkSet carry no fairness.
FairSpec ==
    /\ Spec
    /\ WF_vars(main)
    /\ WF_vars(run_in_namespace)
    /\ \A p \in Procs : WF_vars(WaitpidReaps(p))
    /\ \A p \in Procs : WF_vars(OwnStep(p))

\* ---- properties ----
Idx == 1..Len(trace)
Failed(i, op) == trace[i].op = op /\ trace[i].res # "ok"
Succeeded(op) == \E i \in Idx : trace[i].op = op /\ trace[i].res = "ok"
MountOps == {"mount_root", "mount_sys"}
LoOps == {"new_connection", "link_get", "link_set"}
Stopped(p) == pc[p] \in {"abort", "panic", Done(p)}

\* C1: run_parent returns Ok exactly when waitpid reported a normal exit with
\* code 0; a non-zero exit, a signal, any other status and a waitpid error
\* all give Err, and an Ok verdict means the child really exited 0.
C1_VerdictMatchesWaitStatus ==
    (forkRes = "ok" /\ pc["parent"] \in {"returned", "exited"}) =>
        /\ verdict \in {"Ok", "Err"}
        /\ (verdict = "Ok") <=> (waitRes.kind = "Exited" /\ waitRes.code = 0)
        /\ (verdict = "Ok") => (pc["child"] = "terminated" /\ status["child"] = Exited(0))

C1_Witness ==
    /\ forkRes = "ok"
    /\ pc["parent"] = "returned"
    /\ waitRes.kind = "Exited"
    /\ waitRes.code # 0
    /\ verdict = "Err"

\* C2: whenever the child has exited 0, or the parent reports success, the
\* namespace was created by this run, open, setns, unshare, the lookup of
\* "lo" and the set-up request all succeeded, no control-channel call failed,
\* and "lo" of the named namespace is up.
C2_ExitZeroMeansLoUp ==
    (status["child"] = Exited(0) \/ (forkRes = "ok" /\ verdict = "Ok")) =>
        /\ \A op \in {"add", "open", "setns", "unshare", "new_connection",
                      "link_get", "link_set"} : Succeeded(op)
        /\ \A i \in Idx : trace[i].op \in LoOps => trace[i].res = "ok"
        /\ registry[nsName] = run
        /\ conn = nsName
        /\ loUp[nsName]

C2_Witness ==
    /\ pc["parent"] = "exited"
    /\ status["parent"] = Exited(0)
    /\ status["child"] = Exited(0)
    /\ loUp[nsName]

\* C3: when statvfs on /sys fails because /sys is absent, the failure is
\* tolerated: the child does not die of it but goes on to the loopback step.
C3_AbsentSysTolerated ==
    \A i \in Idx : Failed(i, "statvfs") =>
        /\ pc[trace[i].proc] # "panic"
        /\ status[trace[i].proc] # PanicStatus

\* C4: a failed unshare is the last call of the child: no mount and no
\* loopback call follows it, the child ends in failure and the parent
\* reports failure.
C4_UnshareFailureStops ==
    \A i \in Idx : Failed(i, "unshare") =>
        /\ i = Len(trace)
        /\ Stopped(trace[i].proc)
        /\ status["child"] # Exited(0)
        /\ verdict # "Ok"
        /\ status["parent"] # Exited(0)

C4_Witness ==
    /\ \E i \in Idx : Failed(i, "unshare")
    /\ pc["child"] = "terminated"
    /\ status["child"] = AbortStatus
    /\ waitRes = AbortStatus
    /\ status["parent"] = PanicStatus

\* C5: a failed setns is the last call of the child: no unshare, mount or
\* loopback call follows it, every mount and loopback call is made from
\* inside the named namespace, and the run ends in failure.
C5_SetnsFailureStops ==
    /\ \A i \in Idx : Failed(i, "setns") =>
          /\ i = Len(trace)
          /\ Stopped(trace[i].proc)
          /\ status["child"] # Exited(0)
          /\ verdict # "Ok"
          /\ status["parent"] # Exited(0)
    /\ \A i \in Idx : trace[i].op \in MountOps \cup LoOps \cup {"unshare", "statvfs"}
                         => trace[i].ns = nsName

C5_Witness ==
    /\ \E i \in Idx : Failed(i, "setns")
    /\ netns["child"] = "host"
    /\ pc["child"] = "terminated"
    /\ status["child"] = AbortStatus
    /\ status["parent"] = PanicStatus

\* C6: a failed mount of the new sysfs on /sys is fatal: it is the last call
\* of the child, which ends non-zero without reaching the loopback step.
C6_SysMountFailureFatal ==
    \A i \in Idx : Failed(i, "mount_sys") =>
        /\ i = Len(trace)
        /\ Stopped(trace[i].proc)
        /\ status["child"] # Exited(0)
        /\ verdict # "Ok"

\* C7: an invocation whose name is already registered fails at create: the
\* registry is left as it was, the only call of the child is the failed
\* create, and neither child nor invoking process ends with 0.
C7_DuplicateNameFails ==
    (argc = 2 /\ regAtStart[nsName] # 0) =>
        /\ registry = regAtStart
        /\ \A i \in Idx : trace[i].op = "add" /\ trace[i].res = "err"
        /\ Len(trace) <= 1
        /\ status["child"] # Exited(0)
        /\ verdict # "Ok"
        /\ status["parent"] # Exited(0)

C7_Witness ==
    /\ argc = 2
    /\ regAtStart[nsName] # 0
    /\ Len(trace) = 1
    /\ trace[1].op = "add"
    /\ status["child"] = PanicStatus
    /\ status["parent"] = PanicStatus

\* C8: every mount call comes after a successful setns, and the mount on /sys
\* comes after a successful unshare followed by the private marking of /.
C8_SetnsBeforeMounts ==
    \A j \in Idx :
        /\ trace[j].op \in MountOps =>
              \E i \in 1..(j-1) : trace[i].op = "setns" /\ trace[i].res = "ok"
        /\ trace[j].op \in {"mount_root", "statvfs", "mount_sys"} =>
              \E i \in 1..(j-1) : trace[i].op = "unshare" /\ trace[i].res = "ok"
        /\ trace[j].op = "mount_sys" =>
              \E i \in 1..(j-1), k \in 1..(j-1) :
                  /\ i < k
                  /\ trace[i].op = "unshare" /\ trace[i].res = "ok"
                  /\ trace[k].op = "mount_root"

C8_Witness ==
    /\ \E j \in Idx : trace[j].op = "mount_sys" /\ trace[j].res = "ok"
    /\ \E j \in Idx : trace[j].op = "mount_root" /\ trace[j].res = "ok"
    /\ sysfs["private"].src = nsName
    /\ rootProp["private"] = "private"

\* C9: with one argument the invoking process exits 0 exactly when the wait
\* reported a child that exited 0, and non-zero otherwise; when fork fails
\* it exits non-zero, no child exists, no call was made and the registry is
\* as it was.
C9_ExitStatus ==
    /\ (argc = 2 /\ pc["parent"] = "exited") =>
          /\ status["parent"].kind = "Exited"
          /\ (status["parent"].code = 0) <=>
                (forkRes = "ok" /\ waitRes = Exited(0) /\ status["child"] = Exited(0))
          /\ (status["parent"].code = 0) => loUp[nsName]
    /\ forkRes = "err" =>
          /\ status["parent"] \in {NoStatus, PanicStatus}
          /\ pc["child"] = "none"
          /\ trace = <<>>
          /\ registry = regAtStart

C9_Witness ==
    /\ forkRes = "err"
    /\ pc["parent"] = "exited"
    /\ status["parent"] = PanicStatus

\* C10: every kernel-state change is made by the child: the invoking
\* process issues none of the calls, stays in its network and mount
\* namespace, the host's mount table is untouched, and after the fork the
\* parent only waits and returns.
C10_ParentMutatesNothing ==
    /\ \A i \in Idx : trace[i].proc = "child"
    /\ netns["parent"] = "host"
    /\ mntns["parent"] = "host"
    /\ rootProp["host"] = "shared"
    /\ sysfs["host"] = sysAtStart
    /\ fd # "none" => forkRes = "ok"
    /\ trace # <<>> => forkRes = "ok"
    /\ forkRes = "ok" => pc["parent"] \in {"waitpid", "returned", "exited"}

C10_Witness ==
    /\ pc["parent"] = "exited"
    /\ status["child"] = Exited(0)
    /\ netns["child"] = nsName
    /\ mntns["child"] = "private"
    /\ rootProp["private"] = "private"
    /\ sysfs["private"].src = nsName
    /\ netns["parent"] = "host"

\* C12: an invocation with zero or with two or more arguments prints the
\* usage message and exits 0 without forking: no child exists, no call is
\* made, the registry and every namespace are as they were.
C12_UsageExitsZero ==
    (run > 0 /\ argc # 2) =>
        /\ pc["parent"] \in {"main", "exited"}
        /\ pc["parent"] = "exited" => (usage_shown /\ status["parent"] = Exited(0))
        /\ forkRes = "none"
        /\ pc["child"] = "none"
        /\ trace = <<>>
        /\ registry = regAtStart
        /\ netns["parent"] = "host"
        /\ mntns["parent"] = "host"
        /\ sysfs["host"] = sysAtStart

C12_Witness ==
    /\ argc = 3
    /\ pc["parent"] = "exited"
    /\ usage_shown
    /\ status["parent"] = Exited(0)
    /\ forkRes = "none"

Count(op) == Cardinality({i \in Idx : trace[i].op = op})
AllOps == {"add", "open", "setns", "unshare", "mount_root", "statvfs",
           "mount_sys", "new_connection", "link_get", "link_set"}

\* C14: once setns has been called, with either result, the namespace handle
\* is closed; the handle is open only between a successful open and the
\* setns call, and setns, its only user, is called at most once.
C14_HandleConsumedBySetns ==
    /\ (\E i \in Idx : trace[i].op = "setns") => fd = "closed"
    /\ fd = "open" => (trace # <<>> /\ trace[Len(trace)].op = "open"
                                   /\ trace[Len(trace)].res = "ok")
    /\ fd # "none" => Succeeded("open")
    /\ Count("setns") <= 1
    /\ Count("open") <= 1

C14_Witness ==
    /\ \E i \in Idx : Failed(i, "setns")
    /\ fd = "closed"
    /\ pc["child"] = "abort"

\* C15: the control channel is opened by the child, after the fork and after
\* a successful setns, from inside the named namespace; before the fork no
\* handle and no channel exists; "lo" is looked up at most once, and
\* exactly once in a run whose child exits 0.
C15_ChannelOpenedAfterSetns ==
    /\ \A j \in Idx : trace[j].op \in LoOps =>
          /\ trace[j].proc = "child"
          /\ trace[j].ns = nsName
          /\ \E i \in 1..(j-1) : trace[i].op = "setns" /\ trace[i].res = "ok"
    /\ conn # "none" => (forkRes = "ok" /\ conn = nsName /\ netns["child"] = nsName)
    /\ pc["parent"] \in {"idle", "main", "fork"} => (fd = "none" /\ conn = "none")
    /\ Count("new_connection") <= 1
    /\ Count("link_get") <= 1
    /\ status["child"] = Exited(0) => Count("link_get") = 1

C15_Witness ==
    /\ conn = nsName
    /\ Count("link_get") = 1
    /\ trace[Len(trace)].op = "link_get"
    /\ trace[Len(trace)].res = "none"
    /\ pc["child"] = "panic"

\* C16: a failed private/recursive marking of / is not fatal: the next call
\* of the child is the statistics query on /sys, and the run can go on to the
\* /sys mount and the loopback step.
C16_RootMarkFailureNotFatal ==
    \A i \in Idx : Failed(i, "mount_root") =>
        /\ i = Len(trace) => (pc[trace[i].proc] = "statvfs"
                                \/ status[trace[i].proc] = KillStatus)
        /\ i < Len(trace) => trace[i + 1].op = "statvfs"

C16_Witness ==
    /\ \E i \in Idx : Failed(i, "mount_root")
    /\ Succeeded("mount_sys")
    /\ Succeeded("link_set")
    /\ status["child"] = Exited(0)
    /\ status["parent"] = Exited(0)

\* C17: whenever the new sysfs instance has been mounted on /sys, an unmount
\* of the outgoing /sys was issued before it.
C17_UnmountBeforeSysMount ==
    \A j \in Idx : (trace[j].op = "mount_sys" /\ trace[j].res = "ok") =>
        \E i \in 1..(j-1) : trace[i].op = "umount_sys"

\* C18: the /sys mount is requested read-only exactly when the /sys being
\* replaced was read-only, and carries no other flag: MS_REC and MS_PRIVATE
\* of the root marking are not part of the request.
C18_SysMountFlags ==
    /\ \A j \in Idx : trace[j].op = "mount_sys" =>
          /\ trace[j].flags \subseteq {"MS_RDONLY"}
          /\ ("MS_RDONLY" \in trace[j].flags) <=> sysAtStart.ro
    /\ \A j \in Idx : trace[j].op = "mount_root" => trace[j].flags = {"MS_REC", "MS_PRIVATE"}
    /\ (Succeeded("mount_sys") /\ mntns["child"] = "private") =>
          /\ sysfs["private"].ro = sysAtStart.ro
          /\ sysfs["private"].src = nsName

C18_Witness ==
    /\ \E j \in Idx : /\ trace[j].op = "mount_sys"
                      /\ trace[j].res = "ok"
                      /\ trace[j].flags = {"MS_RDONLY"}
    /\ sysAtStart.ro
    /\ sysfs["private"].ro

\* C19: nothing registered is ever removed and nothing is retried: an entry
\* present at the start is unchanged, an entry created by this run stays
\* whatever happens to the child afterwards, every call is issued at most
\* once, and a run whose name is already registered fails at its create.
C19_NoCleanupNoRetry ==
    /\ \A n \in Names : regAtStart[n] # 0 => registry[n] = regAtStart[n]
    /\ Succeeded("add") => registry[nsName] = run
    /\ \A op \in AllOps : Count(op) <= 1
    /\ \A i \in Idx : trace[i].op \in AllOps
    /\ (regAtStart[nsName] # 0 /\ trace # <<>>) =>
          (trace[1].op = "add" /\ trace[1].res = "err")

C19_Witness ==
    /\ Succeeded("add")
    /\ \E i \in Idx : Failed(i, "unshare")
    /\ status["child"] = AbortStatus
    /\ status["parent"] = PanicStatus
    /\ registry[nsName] = run

\* C11: every invocation with one argument eventually ends with an exit
\* status: the child eventually terminates, a pending lookup or set-up
\* request on the control channel eventually completes, and the parent's wait
\* eventually returns.
C11_InvocationTerminates ==
    /\ (argc = 2 /\ pc["parent"] = "fork") ~> (pc["parent"] = "exited")
    /\ (pc["child"] = "ns_add") ~> (pc["child"] = "terminated")
    /\ (pc["child"] \in {"link_get", "link_set"}) ~> (pc["child"] = "terminated")

\* C13: a failed create, open, setns, unshare, /sys statistics query, lookup
\* or set-up request is the last call of the child, which then ends by
\* abort(): it is never in a panic and never ends with a panic's exit status.
FatalOps == {"add", "open", "setns", "unshare", "statvfs", "link_get", "link_set"}

C13_FatalErrorsAbort ==
    \A i \in Idx : (trace[i].op \in FatalOps /\ trace[i].res # "ok") =>
        /\ i = Len(trace)
        /\ pc[trace[i].proc] \in {"abort", Done(trace[i].proc)}
        /\ status[trace[i].proc] \in {NoStatus, AbortStatus, KillStatus}
        /\ registry[nsName] # 0 => registry[nsName] \in {run, regAtStart[nsName]}

====
